---- MODULE Spec2Model ----
(***************************************************************************)
(* A model of the Rubik's cube simulation and Layer-By-Layer solver of     *)
(* app.py.  A cube is a function from face keys to a sequence of rows,     *)
(* each row a sequence of colour tokens; Python's 0-based cube[f][r][c] is *)
(* cube[f][r + 1][c + 1] here (Get / Put below take the Python indices).   *)
(* A move text is the sequence of its characters: R' is <<"R", "'">>.      *)
(***************************************************************************)
EXTENDS Integers, Sequences, FiniteSets, TLC

VARIABLES state, legal, depth, pc, cube, solution, face_colors, result, failure

vars == <<state, legal, depth, pc, cube, solution, face_colors, result, failure>>

(* ---------------------------------------------------------------- bounds *)

MaxScramble == 2

MaxLog == 3

MaxText == 3

(* ------------------------------------------------------------- constants *)

Faces == <<"U", "D", "F", "B", "L", "R">>

FaceSet == {"U", "D", "F", "B", "L", "R"}

Suffixes == {<<>>, <<"'">>, <<"2">>}

MoveTexts == {<<f>> \o s : f \in FaceSet, s \in Suffixes}

max_moves == 200

\* The list solve() returns on an exception: one text, a text being a
\* tuple as the move texts are.
Sentinel == << <<"Solver failed. Please reset and try again.">> >>

None == <<>>

(* ------------------------------------------------------- cube primitives *)

Get(c, f, r, k) == c[f][r + 1][k + 1]

Put(c, f, r, k, v) == [c EXCEPT ![f][r + 1][k + 1] = v]

GetRow(c, f, r) == c[f][r + 1]

PutRow(c, f, r, row) == [c EXCEPT ![f][r + 1] = row]

InText(ch, text) == \E i \in 1..Len(text) : text[i] = ch

\* rotate_face on a 3x3 face: the rows of the face reversed, then
\* transposed, so new[i][j] = face[2 - j][i] in Python's indices.
rotate_face(face) ==
    << <<face[3][1], face[2][1], face[1][1]>>,
       <<face[3][2], face[2][2], face[1][2]>>,
       <<face[3][3], face[2][3], face[1][3]>> >>

\* cube[f][r][k] = cube[g][q][j]
Assign(c, f, r, k, g, q, j) == Put(c, f, r, k, Get(c, g, q, j))

\* cube[f][r] = cube[g][q]
AssignRow(c, f, r, g, q) == PutRow(c, f, r, GetRow(c, g, q))

\* cycle_U without the saved row: L takes the row F has just been given.
cycle_U_NoTmp(c0, tmp) ==
    AssignRow(AssignRow(AssignRow(AssignRow(c0, "F", 0, "R", 0),
                                  "R", 0, "B", 0),
                        "B", 0, "L", 0),
              "L", 0, "F", 0)

\* The body of apply_move's loop for one clockwise quarter turn of U, tmp
\* being the row saved before the first assignment.
cycle_U(c0, tmp) ==
    PutRow(AssignRow(AssignRow(AssignRow(c0, "F", 0, "R", 0),
                               "R", 0, "B", 0),
                     "B", 0, "L", 0),
           "L", 0, tmp)

\* cycle_D on the middle rows of the side faces.
cycle_D_MiddleRow(c0, tmp) ==
    PutRow(AssignRow(AssignRow(AssignRow(c0, "F", 1, "L", 1),
                               "L", 1, "B", 1),
                     "B", 1, "R", 1),
           "R", 1, tmp)

cycle_D(c0, tmp) ==
    PutRow(AssignRow(AssignRow(AssignRow(c0, "F", 2, "L", 2),
                               "L", 2, "B", 2),
                     "B", 2, "R", 2),
           "R", 2, tmp)

(* One iteration i of the inner "for i in range(3)" of each side face. *)
iter_F(c0, tmp, i) ==
    Put(Assign(Assign(Assign(c0, "U", 2, i, "L", 2 - i, 2),
                      "L", 2 - i, 2, "D", 0, 2 - i),
               "D", 0, 2 - i, "R", i, 0),
        "R", i, 0, tmp[i + 1])

iter_B(c0, tmp, i) ==
    Put(Assign(Assign(Assign(c0, "U", 0, i, "R", i, 2),
                      "R", i, 2, "D", 2, 2 - i),
               "D", 2, 2 - i, "L", 2 - i, 0),
        "L", 2 - i, 0, tmp[i + 1])

iter_L(c0, tmp, i) ==
    Put(Assign(Assign(Assign(c0, "U", i, 0, "B", 2 - i, 2),
                      "B", 2 - i, 2, "D", i, 0),
               "D", i, 0, "F", i, 0),
        "F", i, 0, tmp[i + 1])

\* iter_R writing B's column top-down instead of bottom-up.
iter_R_Unreversed(c0, tmp, i) ==
    Put(Assign(Assign(Assign(c0, "U", i, 2, "F", i, 2),
                      "F", i, 2, "D", i, 2),
               "D", i, 2, "B", 2 - i, 0),
        "B", i, 0, tmp[i + 1])

iter_R(c0, tmp, i) ==
    Put(Assign(Assign(Assign(c0, "U", i, 2, "F", i, 2),
                      "F", i, 2, "D", i, 2),
               "D", i, 2, "B", 2 - i, 0),
        "B", 2 - i, 0, tmp[i + 1])

\* The three iterations of a side face's loop, tmp being the copy of the
\* U row or column taken before the loop.
cycle_F(c0, tmp) == iter_F(iter_F(iter_F(c0, tmp, 0), tmp, 1), tmp, 2)

cycle_B(c0, tmp) == iter_B(iter_B(iter_B(c0, tmp, 0), tmp, 1), tmp, 2)

cycle_L(c0, tmp) == iter_L(iter_L(iter_L(c0, tmp, 0), tmp, 1), tmp, 2)

cycle_R(c0, tmp) == iter_R(iter_R(iter_R(c0, tmp, 0), tmp, 1), tmp, 2)

\* The "if face_char == ..." chain on the cube whose face has been rotated.
cycle_border(c, face_char) ==
    CASE face_char = "U" -> cycle_U(c, GetRow(c, "F", 0))
      [] face_char = "D" -> cycle_D(c, GetRow(c, "F", 2))
      [] face_char = "F" ->
            cycle_F(c, <<Get(c, "U", 2, 0), Get(c, "U", 2, 1), Get(c, "U", 2, 2)>>)
      [] face_char = "B" ->
            cycle_B(c, <<Get(c, "U", 0, 0), Get(c, "U", 0, 1), Get(c, "U", 0, 2)>>)
      [] face_char = "L" ->
            cycle_L(c, <<Get(c, "U", 0, 0), Get(c, "U", 1, 0), Get(c, "U", 2, 0)>>)
      [] face_char = "R" ->
            cycle_R(c, <<Get(c, "U", 0, 2), Get(c, "U", 1, 2), Get(c, "U", 2, 2)>>)

\* One pass of "for _ in range(turns)": rotate the face, cycle the border.
quarter_turn(c0, face_char) ==
    cycle_border([c0 EXCEPT ![face_char] = rotate_face(c0[face_char])], face_char)

\* "for _ in range(turns)".  The face turned is a key of every cube the
\* moves are applied to; looking it up first makes TLC compute the cube
\* of one turn before it starts the next.
RECURSIVE repeat_turn(_, _, _)
repeat_turn(c, face_char, turns) ==
    IF turns = 0 \/ face_char \notin DOMAIN c THEN c
    ELSE repeat_turn(quarter_turn(c, face_char), face_char, turns - 1)

\* move_error looking at the first character of the suffix only.
move_error_FirstOfSuffix(move) ==
    IF Len(move) = 0 \/ move[1] \notin FaceSet THEN "InvalidMove"
    ELSE IF Len(move) > 1 /\ <<move[2]>> \notin Suffixes THEN "InvalidSuffix"
    ELSE ""

(* apply_move's checks of the move text: "" when the text is accepted. *)
move_error(move) ==
    IF Len(move) = 0 \/ move[1] \notin FaceSet THEN "InvalidMove"
    ELSE IF SubSeq(move, 2, Len(move)) \notin Suffixes THEN "InvalidSuffix"
    ELSE ""

\* move_turns taking ' for a single turn.
move_turns_PrimeOnce(move) ==
    LET suffix == SubSeq(move, 2, Len(move))
    IN  IF InText("2", suffix) THEN 2 ELSE 1

move_turns(move) ==
    LET suffix == SubSeq(move, 2, Len(move))
    IN  IF InText("'", suffix) THEN 3 ELSE IF InText("2", suffix) THEN 2 ELSE 1

(* apply_move on an accepted move text: a new cube, the argument untouched. *)
apply_move(c, move) == repeat_turn(c, move[1], move_turns(move))

\* The caller replaying a list of moves with apply_move, one after the
\* other.  The list is split in halves, and the cube of the first half is
\* looked at before the second starts (a move keeps the key set), to keep
\* TLC's evaluation shallow.
RECURSIVE apply_moves(_, _)
apply_moves(c, moves) ==
    IF moves = <<>> THEN c
    ELSE IF Len(moves) = 1 THEN apply_move(c, moves[1])
    ELSE LET h == Len(moves) \div 2
             mid == apply_moves(c, SubSeq(moves, 1, h))
         IN  IF DOMAIN mid # DOMAIN c THEN mid
             ELSE apply_moves(mid, SubSeq(moves, h + 1, Len(moves)))

(* ------------------------------------------------- validation and solved *)

valid_faces == {"U", "D", "F", "B", "L", "R"}

\* The colour tokens of every row of every face present.
colors_of(c) ==
    UNION {UNION {{c[f][i][j] : j \in 1..Len(c[f][i])} : i \in 1..Len(c[f])}
               : f \in DOMAIN c}

\* validate_cube comparing the face keys only one way: an extra key passes.
validate_cube_ExtraKeys(c) ==
    /\ valid_faces \subseteq DOMAIN c
    /\ \A face \in DOMAIN c :
          /\ Len(c[face]) = 3
          /\ \A i \in 1..Len(c[face]) : Len(c[face][i]) = 3
    /\ ~(Cardinality(colors_of(c)) > 6)

\* validate_cube: TRUE when it returns True, FALSE when it raises ValueError.
validate_cube(c) ==
    /\ DOMAIN c = valid_faces
    /\ \A face \in DOMAIN c :
          /\ Len(c[face]) = 3
          /\ \A i \in 1..Len(c[face]) : Len(c[face][i]) = 3
    /\ ~(Cardinality(colors_of(c)) > 6)

\* any(sticker != center_color for sticker in row)
row_differs(row, center_color) ==
    \E k \in 1..Len(row) : row[k] # center_color

\* is_cube_solved's loop from the i-th face of 'UDFBLR' on: "True", "False",
\* or the exception the subscript cube[face][1][1] raises.
RECURSIVE solved_from(_, _)
solved_from(c, i) ==
    IF i > Len(Faces) THEN "True"
    ELSE LET face == Faces[i]
         IN  IF face \notin DOMAIN c THEN "KeyError"
             ELSE IF Len(c[face]) < 2 \/ Len(c[face][2]) < 2 THEN "IndexError"
             ELSE IF \E r \in 1..Len(c[face]) :
                        row_differs(c[face][r], Get(c, face, 1, 1))
                  THEN "False"
             ELSE solved_from(c, i + 1)

\* is_cube_solved returning True as soon as the first face is uniform.
is_cube_solved_FirstFaceOnly(c) ==
    LET face == Faces[1]
    IN  IF face \notin DOMAIN c THEN "KeyError"
        ELSE IF Len(c[face]) < 2 \/ Len(c[face][2]) < 2 THEN "IndexError"
        ELSE IF \E r \in 1..Len(c[face]) :
                   row_differs(c[face][r], Get(c, face, 1, 1))
             THEN "False"
        ELSE "True"

is_cube_solved(c) == solved_from(c, 1)

(* ------------------------------------------------------------ the solver *)

\* CubeSolver.__init__ reads the six centres: the exception it raises, or "".
init_error(c) ==
    IF \E f \in FaceSet : f \notin DOMAIN c THEN "KeyError"
    ELSE IF \E f \in FaceSet : Len(c[f]) < 2 \/ Len(c[f][2]) < 2 THEN "IndexError"
    ELSE ""

init_face_colors(c) == [f \in FaceSet |-> Get(c, f, 1, 1)]

\* Move texts by name: mv.Rp is R', mv.R2 is R2.
mv == [U |-> <<"U">>, Up |-> <<"U", "'">>, U2 |-> <<"U", "2">>,
       D |-> <<"D">>, Dp |-> <<"D", "'">>, D2 |-> <<"D", "2">>,
       F |-> <<"F">>, Fp |-> <<"F", "'">>, F2 |-> <<"F", "2">>,
       B |-> <<"B">>, Bp |-> <<"B", "'">>, B2 |-> <<"B", "2">>,
       L |-> <<"L">>, Lp |-> <<"L", "'">>, L2 |-> <<"L", "2">>,
       R |-> <<"R">>, Rp |-> <<"R", "'">>, R2 |-> <<"R", "2">>]

\* The running solver inside a stage: the working cube, the log, the
\* exception in flight ("" when none), the stage's locals f1, r1, c1, ...
\* (loc) and whether the current loop body hit "continue" (skip).
Running(c, sol) ==
    [cube |-> c, solution |-> sol, err |-> "", loc |-> None, skip |-> FALSE]

\* The "for move in moves" loop of _apply.
RECURSIVE apply_each(_, _)
apply_each(s, moves) ==
    IF moves = <<>> THEN s
    ELSE apply_each([s EXCEPT !.cube = apply_move(s.cube, Head(moves)),
                              !.solution = Append(s.solution, Head(moves))],
                    Tail(moves))

\* _apply: the budget is tested once, before the whole batch.
_apply(s, moves) ==
    IF s.err # "" THEN s
    ELSE IF Len(s.solution) >= max_moves THEN [s EXCEPT !.err = "MaxMoves"]
    ELSE apply_each(s, moves)

\* The edge table with the B/R entry paired with the L face.
edges_WrongNeighbour ==
         << <<"U", 0, 1, "B", 0, 1>>, <<"U", 1, 0, "L", 0, 1>>,
            <<"U", 1, 2, "R", 0, 1>>, <<"U", 2, 1, "F", 0, 1>>,
            <<"F", 1, 0, "L", 1, 2>>, <<"F", 1, 2, "R", 1, 0>>,
            <<"F", 2, 1, "D", 0, 1>>, <<"B", 1, 0, "L", 1, 2>>,
            <<"B", 1, 2, "L", 1, 0>>, <<"B", 2, 1, "D", 2, 1>>,
            <<"D", 1, 0, "L", 2, 1>>, <<"D", 1, 2, "R", 2, 1>> >>

edges == << <<"U", 0, 1, "B", 0, 1>>, <<"U", 1, 0, "L", 0, 1>>,
            <<"U", 1, 2, "R", 0, 1>>, <<"U", 2, 1, "F", 0, 1>>,
            <<"F", 1, 0, "L", 1, 2>>, <<"F", 1, 2, "R", 1, 0>>,
            <<"F", 2, 1, "D", 0, 1>>, <<"B", 1, 0, "R", 1, 2>>,
            <<"B", 1, 2, "L", 1, 0>>, <<"B", 2, 1, "D", 2, 1>>,
            <<"D", 1, 0, "L", 2, 1>>, <<"D", 1, 2, "R", 2, 1>> >>

RECURSIVE find_edge_from(_, _, _, _)
find_edge_from(c, color1, color2, i) ==
    IF i > Len(edges) THEN None
    ELSE LET e == edges[i]
         IN  IF {Get(c, e[1], e[2], e[3]), Get(c, e[4], e[5], e[6])}
                    = {color1, color2}
             THEN e
             ELSE find_edge_from(c, color1, color2, i + 1)

_find_edge(c, color1, color2) == find_edge_from(c, color1, color2, 1)

corners == << <<"U", 0, 0, "L", 0, 0, "B", 0, 2>>, <<"U", 0, 2, "B", 0, 0, "R", 0, 2>>,
              <<"U", 2, 0, "F", 0, 0, "L", 0, 2>>, <<"U", 2, 2, "R", 0, 0, "F", 0, 2>>,
              <<"D", 0, 0, "L", 2, 2, "F", 2, 0>>, <<"D", 0, 2, "F", 2, 2, "R", 2, 0>>,
              <<"D", 2, 0, "B", 2, 2, "L", 2, 0>>, <<"D", 2, 2, "R", 2, 2, "B", 2, 0>> >>

RECURSIVE find_corner_from(_, _, _, _, _)
find_corner_from(c, color1, color2, color3, i) ==
    IF i > Len(corners) THEN None
    ELSE LET k == corners[i]
         IN  IF {Get(c, k[1], k[2], k[3]), Get(c, k[4], k[5], k[6]),
                 Get(c, k[7], k[8], k[9])} = {color1, color2, color3}
             THEN k
             ELSE find_corner_from(c, color1, color2, color3, i + 1)

_find_corner(c, color1, color2, color3) ==
    find_corner_from(c, color1, color2, color3, 1)


white_color(fc) == fc["U"]

yellow_color(fc) == fc["D"]

(* ---------------------------------------------------- stage 1: the cross *)

\* "edge = self._find_edge(...)", "if not edge: break" (or continue), and
\* the unpacking into f1, r1, c1, f2, r2, c2.  A miss is recorded in skip
\* and leaves f1.. as they were.
relocate_edge(s, color1, color2) ==
    IF s.err # "" THEN s
    ELSE LET edge == _find_edge(s.cube, color1, color2)
         IN  IF edge = None THEN [s EXCEPT !.skip = TRUE]
             ELSE [s EXCEPT !.loc = edge]

\* "edge is already in correct position and oriented"
edge_in_place(e, face) ==
    /\ e[1] = "U"
    /\ \/ (face = "F" /\ e[2] = 2 /\ e[3] = 1)
       \/ (face = "R" /\ e[2] = 1 /\ e[3] = 2)
       \/ (face = "B" /\ e[2] = 0 /\ e[3] = 1)
       \/ (face = "L" /\ e[2] = 1 /\ e[3] = 0)
    /\ e[4] = face

\* "for _ in range(4)" turning U until the edge is at U[2][1]/F; n is the
\* number of iterations left, and a miss of the locator in the iteration
\* before (skip) is the loop's "break".
RECURSIVE cross_U_loop(_, _, _, _)
cross_U_loop(s, n, white, side) ==
    IF s.skip THEN [s EXCEPT !.skip = FALSE]
    ELSE IF s.err # "" \/ n = 0 THEN s
    ELSE IF s.loc[1] = "U" /\ s.loc[2] = 2 /\ s.loc[3] = 1 /\ s.loc[4] = "F" THEN s
    ELSE cross_U_loop(relocate_edge(_apply(s, <<mv.U>>), white, side),
                      n - 1, white, side)

\* The move after the U loop: the face of this pass.
cross_face_turn(face) ==
    IF face = "F" THEN <<mv.F>>
    ELSE IF face = "R" THEN <<mv.R>>
    ELSE IF face = "B" THEN <<mv.B>>
    ELSE <<mv.L>>

\* The moves that take an edge out of the middle layer; none when the edge
\* is at no place the code lists.
cross_middle_moves(f1, r1, c1) ==
    IF f1 = "F" /\ r1 = 1 /\ c1 = 2 THEN <<mv.R, mv.U, mv.Rp>>
    ELSE IF f1 = "F" /\ r1 = 1 /\ c1 = 0 THEN <<mv.Lp, mv.Up, mv.L>>
    ELSE IF f1 = "B" /\ r1 = 1 /\ c1 = 2 THEN <<mv.Rp, mv.Up, mv.R>>
    ELSE IF f1 = "B" /\ r1 = 1 /\ c1 = 0 THEN <<mv.L, mv.U, mv.Lp>>
    ELSE <<>>

\* "Bring edge to bottom layer"
cross_bring_down(s, face, white, side) ==
    IF s.loc[1] # "D" /\ s.loc[4] # "D"
    THEN relocate_edge(
             IF s.loc[1] = "U"
             THEN _apply(cross_U_loop(s, 4, white, side), cross_face_turn(face))
             ELSE IF cross_middle_moves(s.loc[1], s.loc[2], s.loc[3]) # <<>>
             THEN _apply(s, cross_middle_moves(s.loc[1], s.loc[2], s.loc[3]))
             ELSE s,
             white, side)
    ELSE s

RECURSIVE cross_D_loop(_, _, _, _, _)
cross_D_loop(s, n, face, white, side) ==
    IF s.skip THEN [s EXCEPT !.skip = FALSE]
    ELSE IF s.err # "" \/ n = 0 THEN s
    ELSE IF s.loc[4] = face THEN s
    ELSE cross_D_loop(relocate_edge(_apply(s, <<mv.D>>), white, side),
                      n - 1, face, white, side)

\* The moves after the D loop.
cross_insert_moves(f1, face) ==
    IF f1 = "D" THEN << <<face>>, <<face>> >>
    ELSE << <<face, "'">>, mv.Up, <<face, "'">> >>

\* "if f1 == 'D': ... else: ..." after the D loop.
cross_place(s, face) ==
    IF s.err # "" THEN s
    ELSE _apply(s, cross_insert_moves(s.loc[1], face))

\* "Edge is in bottom layer"
cross_insert(s, face, white, side) ==
    IF s.err # "" \/ s.skip THEN s
    ELSE IF s.loc[1] = "D" \/ s.loc[4] = "D"
    THEN cross_place(cross_D_loop(s, 4, face, white, side), face)
    ELSE s

\* One pass of "for face in ['F', 'R', 'B', 'L']" of _solve_white_cross.
cross_face(s, face, fc) ==
    IF s.err # "" THEN s
    ELSE LET white == white_color(fc)
             side_color == fc[face]
             edge == _find_edge(s.cube, white, side_color)
         IN  IF edge = None THEN s
             ELSE IF edge_in_place(edge, face) THEN s
             ELSE [cross_insert(
                      cross_bring_down([s EXCEPT !.loc = edge], face, white, side_color),
                      face, white, side_color)
                   EXCEPT !.skip = FALSE]

Sides == <<"F", "R", "B", "L">>

\* "for face in ['F', 'R', 'B', 'L']" from the i-th face on.
RECURSIVE cross_faces(_, _, _)
cross_faces(s, i, fc) ==
    IF i > Len(Sides) \/ s.err # "" THEN s
    ELSE cross_faces(cross_face(s, Sides[i], fc), i + 1, fc)

_solve_white_cross(s, fc) == cross_faces(s, 1, fc)

(* -------------------------------------------------- stage 2: the corners *)

\* 'L' if face == 'F' else 'F' if face == 'R' else 'R' if face == 'B' else 'B'
corner_partner(face) ==
    IF face = "F" THEN "L" ELSE IF face = "R" THEN "F"
    ELSE IF face = "B" THEN "R" ELSE "B"

\* "corner = self._find_corner(...)", "if not corner: break" (or continue),
\* and the unpacking into f1, ..., c3.
relocate_corner(s, color1, color2, color3) ==
    IF s.err # "" THEN s
    ELSE LET corner == _find_corner(s.cube, color1, color2, color3)
         IN  IF corner = None THEN [s EXCEPT !.skip = TRUE]
             ELSE [s EXCEPT !.loc = corner]

RECURSIVE corner_U_loop(_, _, _, _, _)
corner_U_loop(s, n, white, side1, side2) ==
    IF s.skip THEN [s EXCEPT !.skip = FALSE]
    ELSE IF s.err # "" \/ n = 0 THEN s
    ELSE IF s.loc[1] = "U" /\ s.loc[2] = 2 /\ s.loc[3] = 2
            /\ s.loc[4] = "R" /\ s.loc[7] = "F" THEN s
    ELSE corner_U_loop(relocate_corner(_apply(s, <<mv.U>>), white, side1, side2),
                       n - 1, white, side1, side2)

\* "Bring corner to bottom layer"
corner_bring_down(s, white, side1, side2) ==
    IF s.loc[1] # "D" /\ s.loc[4] # "D" /\ s.loc[7] # "D"
    THEN relocate_corner(_apply(corner_U_loop(s, 4, white, side1, side2),
                                <<mv.R, mv.D, mv.Rp, mv.Dp>>),
                         white, side1, side2)
    ELSE s

\* "if not edge: break" in the D loop of the corners stage: this function
\* binds no name edge, so the test raises NameError.
corner_D_test(s) ==
    IF s.err # "" THEN s ELSE [s EXCEPT !.err = "NameError"]

\* The D loop of the corners stage: the first D turn and lookup are
\* followed by the test that raises.
corner_D_loop(s, n, face) ==
    IF s.err # "" \/ n = 0 THEN s
    ELSE IF s.loc[4] = face /\ s.loc[7] = corner_partner(face) THEN s
    ELSE corner_D_test(_apply(s, <<mv.D>>))

\* The moves after the D loop.
corner_insert_moves(f1, face) ==
    IF f1 = "D"
    THEN IF face = "F" THEN <<mv.F, mv.Dp, mv.Fp>>
         ELSE IF face = "R" THEN <<mv.Rp, mv.D, mv.R>>
         ELSE IF face = "B" THEN <<mv.B, mv.D2, mv.Bp, mv.D2>>
         ELSE <<mv.L, mv.Dp, mv.Lp>>
    ELSE IF face = "F" THEN <<mv.Fp, mv.Dp, mv.F>>
         ELSE IF face = "R" THEN <<mv.R, mv.D, mv.Rp>>
         ELSE IF face = "B" THEN <<mv.Bp, mv.D2, mv.B>>
         ELSE <<mv.L, mv.Dp, mv.Lp>>

\* "if f1 == 'D': ... else: ..." after the D loop.
corner_place(s, face) ==
    IF s.err # "" THEN s
    ELSE _apply(s, corner_insert_moves(s.loc[1], face))

\* "Corner is in bottom layer"
corner_insert(s, face) ==
    IF s.err # "" \/ s.skip THEN s
    ELSE IF s.loc[1] = "D" \/ s.loc[4] = "D" \/ s.loc[7] = "D"
    THEN corner_place(corner_D_loop(s, 4, face), face)
    ELSE s

\* One pass of "for face in ['F', 'R', 'B', 'L']" of _solve_white_corners.
corner_face(s, face, fc) ==
    IF s.err # "" THEN s
    ELSE LET white == white_color(fc)
             side_color1 == fc[face]
             side_color2 == fc[corner_partner(face)]
             corner == _find_corner(s.cube, white, side_color1, side_color2)
         IN  IF corner = None THEN s
             ELSE [corner_insert(
                      corner_bring_down([s EXCEPT !.loc = corner],
                                        white, side_color1, side_color2),
                      face)
                   EXCEPT !.skip = FALSE]

\* "for face in ['F', 'R', 'B', 'L']" from the i-th face on.
RECURSIVE corner_faces(_, _, _)
corner_faces(s, i, fc) ==
    IF i > Len(Sides) \/ s.err # "" THEN s
    ELSE corner_faces(corner_face(s, Sides[i], fc), i + 1, fc)

_solve_white_corners(s, fc) == corner_faces(s, 1, fc)

(* --------------------------------------------- stage 3: the second layer *)

\* 'R' if f == 'F' else 'B' if f == 'R' else 'L' if f == 'B' else 'F'
adj_of(f) ==
    IF f = "F" THEN "R" ELSE IF f = "R" THEN "B"
    ELSE IF f = "B" THEN "L" ELSE "F"

\* 'U' not in f1 and 'D' not in f1 and 'U' not in f2 and 'D' not in f2
in_middle(e) == e[1] # "U" /\ e[1] # "D" /\ e[4] # "U" /\ e[4] # "D"

\* The inner "for f in ['F', 'R', 'B', 'L']": the edge picked (None when
\* every edge is skipped) and the values f and adj_face are left with.
RECURSIVE second_pick_from(_, _, _)
second_pick_from(c, fc, i) ==
    LET f == Sides[i]
        adj_face == adj_of(f)
        e == _find_edge(c, fc[f], fc[adj_face])
    IN  IF e # None /\ ~in_middle(e) THEN <<e, f, adj_face>>
        ELSE IF i = Len(Sides) THEN <<None, f, adj_face>>
        ELSE second_pick_from(c, fc, i + 1)

RECURSIVE second_U_loop(_, _, _, _, _, _)
second_U_loop(s, n, face, fc, f, adj_face) ==
    IF s.skip THEN [s EXCEPT !.skip = FALSE]
    ELSE IF s.err # "" \/ n = 0 THEN s
    ELSE IF Get(s.cube, face, 0, IF face \in {"L", "R"} THEN 1 ELSE 1) = fc[face] THEN s
    ELSE second_U_loop(relocate_edge(_apply(s, <<mv.U>>), fc[f], fc[adj_face]),
                       n - 1, face, fc, f, adj_face)

RECURSIVE second_D_loop(_, _, _, _, _)
second_D_loop(s, n, fc, f, adj_face) ==
    IF s.skip THEN [s EXCEPT !.skip = FALSE]
    ELSE IF s.err # "" \/ n = 0 THEN s
    ELSE IF s.loc[1] = "F" /\ s.loc[2] = 2 /\ s.loc[3] = 1 THEN s
    ELSE second_D_loop(relocate_edge(_apply(s, <<mv.D>>), fc[f], fc[adj_face]),
                       n - 1, fc, f, adj_face)

right_insert == <<mv.U, mv.R, mv.Up, mv.Rp, mv.Up, mv.Fp, mv.U, mv.F>>

left_insert == <<mv.Up, mv.Lp, mv.U, mv.L, mv.U, mv.F, mv.Up, mv.Fp>>

\* [k for k, v in self.face_colors.items() if v == other_color]
faces_of_color(fc, color) ==
    SelectSeq(Faces, LAMBDA k : fc[k] = color)

\* The moves that take an edge out of the middle layer; none when the edge
\* is at neither place the code lists.
second_middle_moves(f1, r1, c1) ==
    IF f1 = "F" /\ r1 = 1 /\ c1 = 2 THEN right_insert
    ELSE IF f1 = "F" /\ r1 = 1 /\ c1 = 0 THEN left_insert
    ELSE <<>>

\* The block under "if 'U' not in f1 and ...": take a middle-layer edge out.
second_take_out(s, fc, f, adj_face) ==
    IF in_middle(s.loc)
    THEN relocate_edge(
             IF second_middle_moves(s.loc[1], s.loc[2], s.loc[3]) # <<>>
             THEN _apply(s, second_middle_moves(s.loc[1], s.loc[2], s.loc[3]))
             ELSE s,
             fc[f], fc[adj_face])
    ELSE s

\* other_color after the U loop.
other_color_of(s) ==
    IF s.loc[1] # "U" THEN Get(s.cube, s.loc[1], s.loc[2], s.loc[3])
    ELSE Get(s.cube, s.loc[4], s.loc[5], s.loc[6])

\* target_face and the insertion it selects: the subscript [0] raises
\* IndexError when no centre has the colour.
second_U_place(s, fc) ==
    IF s.err # "" THEN s
    ELSE IF faces_of_color(fc, other_color_of(s)) = <<>>
    THEN [s EXCEPT !.err = "IndexError"]
    ELSE _apply(s, IF faces_of_color(fc, other_color_of(s))[1] = "R"
                   THEN right_insert ELSE left_insert)

\* The block under "if 'U' in f1 or 'U' in f2 or 'D' in f1 or 'D' in f2".
second_insert(s, fc, f, adj_face) ==
    IF s.err # "" \/ s.skip THEN s
    ELSE IF s.loc[1] = "U" \/ s.loc[4] = "U" \/ s.loc[1] = "D" \/ s.loc[4] = "D"
    THEN IF s.loc[1] = "U" \/ s.loc[4] = "U"
         THEN second_U_place(
                  second_U_loop(s, 4, IF s.loc[1] = "U" THEN s.loc[4] ELSE s.loc[1],
                                fc, f, adj_face),
                  fc)
         ELSE _apply(second_D_loop(s, 4, fc, f, adj_face), <<mv.F, mv.U, mv.Fp>>)
    ELSE s

\* The part of a pass after the inner loop has picked <<edge, f, adj_face>>.
second_pass_on(s, fc, pick) ==
    IF pick[1] = None THEN s
    ELSE [second_insert(
             second_take_out([s EXCEPT !.loc = pick[1]], fc, pick[2], pick[3]),
             fc, pick[2], pick[3])
          EXCEPT !.skip = FALSE]

\* One pass of the outer "for _ in range(4)" of _solve_second_layer.
second_pass(s, fc) ==
    IF s.err # "" THEN s
    ELSE second_pass_on(s, fc, second_pick_from(s.cube, fc, 1))

\* The outer "for _ in range(4)", n passes left.
RECURSIVE second_passes(_, _, _)
second_passes(s, n, fc) ==
    IF n = 0 \/ s.err # "" THEN s
    ELSE second_passes(second_pass(s, fc), n - 1, fc)

_solve_second_layer(s, fc) == second_passes(s, 4, fc)

(* ---------------------------------------------- stage 4: the yellow cross *)

yellow_edges(c, yellow) ==
    << Get(c, "D", 0, 1) = yellow, Get(c, "D", 1, 0) = yellow,
       Get(c, "D", 1, 2) = yellow, Get(c, "D", 2, 1) = yellow >>

\* sum(edges)
count_true(flags) == Cardinality({i \in 1..Len(flags) : flags[i]})

\* The loop turning D until edges[1] and edges[2] hold; edges is recomputed
\* from the cube after every turn.
RECURSIVE yellow_cross_D_loop(_, _, _)
yellow_cross_D_loop(s, n, yellow) ==
    IF s.err # "" \/ n = 0 THEN s
    ELSE IF yellow_edges(s.cube, yellow)[2] /\ yellow_edges(s.cube, yellow)[3] THEN s
    ELSE yellow_cross_D_loop(_apply(s, <<mv.D>>), n - 1, yellow)

_solve_yellow_cross(s, fc) ==
    LET yellow == yellow_color(fc)
        count0 == count_true(yellow_edges(s.cube, yellow))
        s1 == IF count0 = 0
              THEN _apply(s, <<mv.F, mv.R, mv.U, mv.Rp, mv.Up, mv.Fp>>)
              ELSE s
        edges1 == yellow_edges(s1.cube, yellow)
        s2 == IF edges1[1] /\ edges1[3] THEN _apply(s1, <<mv.D>>)
              ELSE IF ~(edges1[2] /\ edges1[4]) THEN yellow_cross_D_loop(s1, 4, yellow)
              ELSE s1
    IN  IF s.err # "" THEN s
        ELSE IF count0 = 4 THEN s
        ELSE IF s1.err # "" THEN s1
        ELSE IF count_true(edges1) = 2
             THEN _apply(s2, <<mv.F, mv.U, mv.R, mv.Up, mv.Rp, mv.Fp>>)
        ELSE s1

(* ----------------------------------------------- stage 5: the yellow face *)

yellow_corners(c, yellow) ==
    << Get(c, "D", 0, 0) = yellow, Get(c, "D", 0, 2) = yellow,
       Get(c, "D", 2, 0) = yellow, Get(c, "D", 2, 2) = yellow >>

RECURSIVE yellow_face_D_loop(_, _, _)
yellow_face_D_loop(s, n, yellow) ==
    IF s.err # "" \/ n = 0 THEN s
    ELSE IF Get(s.cube, "D", 2, 2) = yellow THEN s
    ELSE yellow_face_D_loop(_apply(s, <<mv.D>>), n - 1, yellow)

RECURSIVE yellow_face_loop(_, _, _)
yellow_face_loop(s, n, yellow) ==
    IF s.err # "" \/ n = 0 THEN s
    ELSE IF \A i \in 1..4 : yellow_corners(s.cube, yellow)[i] THEN s
    ELSE yellow_face_loop(
             _apply(yellow_face_D_loop(s, 4, yellow),
                    <<mv.R, mv.U, mv.Rp, mv.U, mv.R, mv.U2, mv.Rp>>),
             n - 1, yellow)

_solve_yellow_face(s, fc) == yellow_face_loop(s, 4, yellow_color(fc))

(* ----------------------------------------------- stage 6: the final layer *)

\* The inner check of _position_final_corners for i in range(4).
final_corner_ok(c, fc, i) ==
    LET face == <<"F", "R", "B", "L">>[i + 1]
        next_face == <<"R", "B", "L", "F">>[i + 1]
        corner_colors ==
            { Get(c, "U", IF face \in {"F", "R"} THEN 2 ELSE 0,
                          IF face \in {"R", "B"} THEN 2 ELSE 0),
              Get(c, face, 0, IF face \in {"F", "B"} THEN 2 ELSE 0),
              Get(c, next_face, 0, IF next_face \in {"F", "B"} THEN 0 ELSE 2) }
        expected_colors == {fc["U"], fc[face], fc[next_face]}
    IN  corner_colors = expected_colors

RECURSIVE final_corners_loop(_, _, _)
final_corners_loop(s, n, fc) ==
    IF s.err # "" \/ n = 0 THEN s
    ELSE IF \A i \in 0..3 : final_corner_ok(s.cube, fc, i) THEN s
    ELSE final_corners_loop(
             _apply(_apply(s, <<mv.Rp, mv.F, mv.Rp, mv.B2, mv.R, mv.Fp, mv.Rp, mv.B2, mv.R2>>),
                    <<mv.U>>),
             n - 1, fc)

_position_final_corners(s, fc) == final_corners_loop(s, 4, fc)

RECURSIVE final_edges_loop(_, _, _)
final_edges_loop(s, n, fc) ==
    IF s.err # "" \/ n = 0 THEN s
    ELSE IF \A i \in 1..4 : Get(s.cube, Sides[i], 0, 1) = fc[Sides[i]] THEN s
    ELSE final_edges_loop(
             _apply(_apply(s, <<mv.R2, mv.U, mv.R, mv.U, mv.Rp, mv.Up,
                                mv.Rp, mv.Up, mv.Rp, mv.U, mv.Rp>>),
                    <<mv.U>>),
             n - 1, fc)

_position_final_edges(s, fc) == final_edges_loop(s, 4, fc)

_solve_final_layer(s, fc) == _position_final_edges(_position_final_corners(s, fc), fc)

(* -------------------------------------------------------- the optimizer *)

\* opt_turns counting a primed move as one turn.
opt_turns_PrimeAsOne(move) ==
    IF ~InText("2", move) THEN 1 ELSE 2

\* 1 if "'" not in move and "2" not in move else (3 if "'" in move else 2)
opt_turns(move) ==
    IF ~InText("'", move) /\ ~InText("2", move) THEN 1
    ELSE IF InText("'", move) THEN 3 ELSE 2

\* optimize_step stepping over one move only after a merge.
optimize_step_KeepSecond(sol, st) ==
    LET n == Len(sol)
        i == st[1]
        optimized == st[2]
    IN  IF i < n - 1 /\ sol[i + 1][1] = sol[i + 2][1]
        THEN LET total_turns == (opt_turns(sol[i + 1]) + opt_turns(sol[i + 2])) % 4
                 face == sol[i + 1][1]
             IN  IF total_turns = 0 THEN <<i + 1, optimized>>
                 ELSE IF total_turns = 1 THEN <<i + 1, Append(optimized, <<face>>)>>
                 ELSE IF total_turns = 2 THEN <<i + 1, Append(optimized, <<face, "2">>)>>
                 ELSE <<i + 1, Append(optimized, <<face, "'">>)>>
        ELSE <<i + 1, Append(optimized, sol[i + 1])>>

\* One pass of the body of the while loop of _optimize_solution; st is
\* <<i, optimized>> with i the 0-based index.
optimize_step(sol, st) ==
    LET n == Len(sol)
        i == st[1]
        optimized == st[2]
    IN  IF i < n - 1 /\ sol[i + 1][1] = sol[i + 2][1]
        THEN LET move1 == sol[i + 1]
                 move2 == sol[i + 2]
                 total_turns == (opt_turns(move1) + opt_turns(move2)) % 4
                 face == move1[1]
             IN  IF total_turns = 0 THEN <<i + 2, optimized>>
                 ELSE IF total_turns = 1 THEN <<i + 2, Append(optimized, <<face>>)>>
                 ELSE IF total_turns = 2 THEN <<i + 2, Append(optimized, <<face, "2">>)>>
                 ELSE <<i + 2, Append(optimized, <<face, "'">>)>>
        ELSE <<i + 1, Append(optimized, sol[i + 1])>>

\* "while i < n" run for up to 2^k passes; the passes are grouped in halves
\* to keep the evaluation shallow.
RECURSIVE optimize_loop(_, _, _)
optimize_loop(sol, st, k) ==
    IF ~(st[1] < Len(sol)) THEN st
    ELSE IF k = 0 THEN optimize_step(sol, st)
    ELSE optimize_loop(sol, optimize_loop(sol, st, k - 1), k - 1)

\* The least k with 2^k >= n: the loop needs at most n passes.
RECURSIVE halvings(_)
halvings(n) == IF n <= 1 THEN 0 ELSE 1 + halvings((n + 1) \div 2)

_optimize_solution(sol) == optimize_loop(sol, <<0, <<>>>>, halvings(Len(sol)))[2]

(* ------------------------------------------------------------ the inputs *)

Uniform(color) == << <<color, color, color>>, <<color, color, color>>,
                     <<color, color, color>> >>

\* The solved cube with six colours.
SolvedCube ==
    [f \in FaceSet |->
        Uniform(CASE f = "U" -> "W" [] f = "D" -> "Y" [] f = "F" -> "G"
                  [] f = "B" -> "B" [] f = "L" -> "O" [] f = "R" -> "R")]

\* The scenario scramble R U R' U' of the solved cube.
ScenarioCube == apply_moves(SolvedCube, <<mv.R, mv.U, mv.Rp, mv.Up>>)

\* A scramble whose solve runs into the move budget.
LongCube == apply_moves(SolvedCube, <<mv.R, mv.U, mv.D>>)

\* A 3x3 cube with uniform faces, two of them of the same colour.
FiveColourCube == [SolvedCube EXCEPT !["D"] = Uniform("W")]

\* Inputs that validate_cube rejects.
MissingFaceCube == [f \in FaceSet \ {"R"} |-> SolvedCube[f]]

FourRowCube == [SolvedCube EXCEPT !["U"] = Append(Uniform("W"), <<"W", "W", "W">>)]

SevenColourCube == [SolvedCube EXCEPT !["F"][1][1] = "X"]

LegalSeeds == {SolvedCube, ScenarioCube, LongCube}

Seeds == LegalSeeds \cup {FiveColourCube, MissingFaceCube, FourRowCube, SevenColourCube}

(* ----------------------------------------------------- the state machine *)

\* state is the caller's cube, legal whether it comes from the solved
\* six-colour cube by valid moves, depth the number of moves applied to it
\* here; pc is the position of the driver; cube, solution and face_colors
\* are the solver's fields; result is what solve returned and failure the
\* exception that was raised, "" when none.
Init ==
    /\ state \in Seeds
    /\ legal = (state \in LegalSeeds)
    /\ depth = 0
    /\ pc = "input"
    /\ cube = None
    /\ solution = <<>>
    /\ face_colors = None
    /\ result = <<>>
    /\ failure = ""

\* The caller applies one move to its cube with apply_move.
Scramble ==
    /\ pc = "input"
    /\ depth < MaxScramble
    /\ validate_cube(state)
    /\ \E m \in MoveTexts : state' = apply_move(state, m)
    /\ depth' = depth + 1
    /\ UNCHANGED <<legal, pc, cube, solution, face_colors, result, failure>>

\* CubeSolver(state)
Construct ==
    /\ pc = "input"
    /\ IF init_error(state) = ""
       THEN /\ cube' = state
            /\ face_colors' = init_face_colors(state)
            /\ pc' = "constructed"
            /\ failure' = failure
       ELSE /\ pc' = "raised"
            /\ failure' = init_error(state)
            /\ UNCHANGED <<cube, face_colors>>
    /\ solution' = <<>>
    /\ UNCHANGED <<state, legal, depth, result>>

\* SolveStart without the early return on a solved cube.
SolveStart_NoEarlyReturn ==
    /\ pc = "constructed"
    /\ IF ~validate_cube(cube)
       THEN pc' = "returned" /\ result' = Sentinel /\ failure' = "ValueError"
       ELSE pc' = "white_cross" /\ result' = result /\ failure' = failure
    /\ UNCHANGED <<state, legal, depth, cube, solution, face_colors>>

\* solve() up to the first stage: the solved test, then validate_cube
\* inside the try block.
SolveStart ==
    /\ pc = "constructed"
    /\ LET solved == is_cube_solved(cube)
       IN  IF solved = "True"
           THEN pc' = "returned" /\ result' = <<>> /\ failure' = failure
           ELSE IF solved # "False"
           THEN pc' = "raised" /\ result' = result /\ failure' = solved
           ELSE IF ~validate_cube(cube)
           THEN pc' = "returned" /\ result' = Sentinel /\ failure' = "ValueError"
           ELSE pc' = "white_cross" /\ result' = result /\ failure' = failure
    /\ UNCHANGED <<state, legal, depth, cube, solution, face_colors>>

\* StageStep with the solver working on the caller's cube, not on a copy.
StageStep_SharedCube(name, after, next) ==
    /\ pc = name
    /\ cube' = after.cube
    /\ state' = after.cube
    /\ solution' = after.solution
    /\ IF after.err # ""
       THEN pc' = "returned" /\ result' = Sentinel /\ failure' = after.err
       ELSE pc' = next /\ result' = result /\ failure' = failure
    /\ UNCHANGED <<legal, depth, face_colors>>

\* StageStep with the next stage run although the stage raised.
StageStep_KeepsGoing(name, after, next) ==
    /\ pc = name
    /\ cube' = after.cube
    /\ solution' = after.solution
    /\ pc' = next
    /\ result' = result
    /\ failure' = IF after.err # "" THEN after.err ELSE failure
    /\ UNCHANGED <<state, legal, depth, face_colors>>

\* A stage has run from before to after: on an exception solve returns
\* the sentinel, otherwise the next stage is due.  The moves act on the
\* solver's deep copy (cube); the caller's cube (state) is not touched.
StageStep(name, after, next) ==
    /\ pc = name
    /\ cube' = after.cube
    /\ solution' = after.solution
    /\ IF after.err # ""
       THEN pc' = "returned" /\ result' = Sentinel /\ failure' = after.err
       ELSE pc' = next /\ result' = result /\ failure' = failure
    /\ UNCHANGED <<state, legal, depth, face_colors>>

WhiteCross ==
    StageStep("white_cross",
              _solve_white_cross(Running(cube, solution), face_colors),
              "white_corners")

WhiteCorners ==
    StageStep("white_corners",
              _solve_white_corners(Running(cube, solution), face_colors),
              "second_layer")

SecondLayer ==
    StageStep("second_layer",
              _solve_second_layer(Running(cube, solution), face_colors),
              "yellow_cross")

YellowCross ==
    StageStep("yellow_cross",
              _solve_yellow_cross(Running(cube, solution), face_colors),
              "yellow_face")

YellowFace ==
    StageStep("yellow_face",
              _solve_yellow_face(Running(cube, solution), face_colors),
              "final_layer")

FinalLayer ==
    StageStep("final_layer",
              _solve_final_layer(Running(cube, solution), face_colors),
              "optimize")

\* return self._optimize_solution()
Optimize ==
    /\ pc = "optimize"
    /\ result' = _optimize_solution(solution)
    /\ pc' = "returned"
    /\ UNCHANGED <<state, legal, depth, cube, solution, face_colors, failure>>

Next ==
    \/ Scramble
    \/ Construct
    \/ SolveStart
    \/ WhiteCross
    \/ WhiteCorners
    \/ SecondLayer
    \/ YellowCross
    \/ YellowFace
    \/ FinalLayer
    \/ Optimize

Spec == Init /\ [][Next]_vars


(* solve() runs to its return once it is called: while the driver is at
   a position inside solve(), the step that is due there is taken and
   the position changes; building a solver and scrambling stay the
   caller's choice. *)

DriverPositions ==
    {"input", "constructed", "optimize", "returned", "raised"} \cup
    {"white_cross", "white_corners", "second_layer",
     "yellow_cross", "yellow_face", "final_layer"}

SolvePositions == DriverPositions \ {"input", "returned", "raised"}

SolveAdvances == pc \in SolvePositions /\ pc' \in DriverPositions \ {pc}

SpecLive == Init /\ [][Next]_vars /\ WF_pc(SolveAdvances)

(* The caller's moves alone: apply_move on every input. *)

\* The inputs of the moves alone: the solved cube, the five-colour cube
\* and the rejected inputs; their scrambles are the states the moves act on.
MoveSeeds == Seeds \ {ScenarioCube, LongCube}

InitMoves == Init /\ state \in MoveSeeds

NextMoves == Scramble

SpecMoves == InitMoves /\ [][NextMoves]_vars

(* The optimizer alone, on every log of at most MaxLog valid moves. *)

Logs == UNION {[1..n -> MoveTexts] : n \in 0..MaxLog}

InitOpt ==
    /\ state = SolvedCube
    /\ legal = TRUE
    /\ depth = 0
    /\ pc = "optimize"
    /\ cube = SolvedCube
    /\ solution \in Logs
    /\ face_colors = init_face_colors(SolvedCube)
    /\ result = <<>>
    /\ failure = ""

NextOpt == Optimize

SpecOpt == InitOpt /\ [][NextOpt]_vars

(* Each stage alone: a solver built on a cube that at most MaxScramble
   moves take the solved cube to, and started at any of the six stages. *)

StageNames ==
    {"white_cross", "white_corners", "second_layer",
     "yellow_cross", "yellow_face", "final_layer"}

\* Two layers solved and two edges of the bottom colour on D.
TwoLayerCube == apply_moves(SolvedCube, <<mv.B, mv.R, mv.D, mv.Rp, mv.Dp, mv.Bp>>)

\* The white cross solved and the corners not: the cube that
\* _solve_white_cross leaves when started on the solved cube after R2 B2 R.
CrossOnlyCube ==
    apply_moves(SolvedCube,
                <<mv.R2, mv.B2, mv.R2, mv.U, mv.Rp, mv.Bp, mv.Up, mv.Bp, mv.D, mv.L2>>)

StageInputs ==
    {apply_moves(SolvedCube, ms) : ms \in UNION {[1..n -> MoveTexts] : n \in 0..MaxScramble}}
        \cup {TwoLayerCube, CrossOnlyCube}

InitStages ==
    /\ state \in StageInputs
    /\ legal = TRUE
    /\ depth = 0
    /\ pc \in StageNames
    /\ cube = state
    /\ solution = <<>>
    /\ face_colors = init_face_colors(state)
    /\ result = <<>>
    /\ failure = ""

NextStages ==
    \/ WhiteCross
    \/ WhiteCorners
    \/ SecondLayer
    \/ YellowCross
    \/ YellowFace
    \/ FinalLayer

SpecStages == InitStages /\ [][NextStages]_vars

(* apply_move alone, on every text of at most MaxText characters. *)

TextChars == FaceSet \cup {"X", "'", "2", "3"}

Texts == UNION {[1..n -> TextChars] : n \in 0..MaxText}

InitTexts ==
    /\ state \in {SolvedCube, ScenarioCube, FiveColourCube}
    /\ legal = (state \in LegalSeeds)
    /\ depth = 0
    /\ pc = "input"
    /\ cube = None
    /\ solution = <<>>
    /\ face_colors = None
    /\ result = <<>>
    /\ failure = ""

\* state = apply_move(state, text) by a caller that keeps its cube when
\* apply_move raises.  cube records the argument, result the text and
\* failure the error raised, "" when apply_move returned.
ApplyText ==
    /\ pc = "input"
    /\ \E text \in Texts :
          /\ result' = <<text>>
          /\ failure' = move_error(text)
          /\ state' = IF move_error(text) = "" THEN apply_move(state, text) ELSE state
    /\ cube' = state
    /\ pc' = "moved"
    /\ UNCHANGED <<legal, depth, solution, face_colors>>

NextTexts == ApplyText

SpecTexts == InitTexts /\ [][NextTexts]_vars

(* validate_cube alone, on well-formed cubes and on damaged ones. *)

\* A cube with one thing changed: a face key dropped, a key added, a row
\* added to or taken from a face, a token added to or taken from a row, or
\* one or two stickers given colours the cube does not have.
Damages ==
    {<<kind, f>> : kind \in {"none", "drop_face", "extra_face", "four_rows", "two_rows",
                             "four_tokens", "two_tokens", "new_colour", "two_new_colours"},
                   f \in FaceSet}

Damaged(c, d) ==
    LET f == d[2]
    IN  CASE d[1] = "none" -> c
          [] d[1] = "drop_face" -> [g \in FaceSet \ {f} |-> c[g]]
          [] d[1] = "extra_face" -> [g \in FaceSet \cup {"X"} |-> IF g = "X" THEN c[f] ELSE c[g]]
          [] d[1] = "four_rows" -> [c EXCEPT ![f] = Append(c[f], c[f][1])]
          [] d[1] = "two_rows" -> [c EXCEPT ![f] = SubSeq(c[f], 1, 2)]
          [] d[1] = "four_tokens" -> [c EXCEPT ![f][3] = Append(c[f][3], c[f][3][1])]
          [] d[1] = "two_tokens" -> [c EXCEPT ![f][3] = SubSeq(c[f][3], 1, 2)]
          [] d[1] = "new_colour" -> [c EXCEPT ![f][1][1] = "X"]
          [] d[1] = "two_new_colours" -> [c EXCEPT ![f][1][1] = "X", ![f][3][3] = "Z"]

ValidateInputs ==
    {Damaged(c, d) : c \in {SolvedCube, ScenarioCube, FiveColourCube}, d \in Damages}

InitValidate ==
    /\ state \in ValidateInputs
    /\ legal = (state \in LegalSeeds)
    /\ depth = 0
    /\ pc = "input"
    /\ cube = None
    /\ solution = <<>>
    /\ face_colors = None
    /\ result = <<>>
    /\ failure = ""

\* validate_cube(state): it returns True or raises ValueError.
Validate ==
    /\ pc = "input"
    /\ IF validate_cube(state)
       THEN pc' = "validated" /\ failure' = ""
       ELSE pc' = "rejected" /\ failure' = "ValueError"
    /\ UNCHANGED <<state, legal, depth, cube, solution, face_colors, result>>

NextValidate == Validate

SpecValidate == InitValidate /\ [][NextValidate]_vars

(* ------------------------------------------------------------ properties *)

Solved(c) == is_cube_solved(c) = "True"

\* C1: for every unsolved state obtained from the solved six-colour cube
\* by valid moves, solve returns at most 200 valid moves, not the failure
\* sentinel, and replaying them from that state gives a solved cube.
C1_SolveSolvesEveryScramble ==
    (pc = "returned" /\ legal /\ ~Solved(state)) =>
        /\ result # Sentinel
        /\ Len(result) <= 200
        /\ \A i \in 1..Len(result) : result[i] \in MoveTexts
        /\ Solved(apply_moves(state, result))

\* C2: after R U R' U' on the solved cube, solve returns a move list whose
\* replay from the scrambled state ends in a solved cube.
C2_ScenarioIsSolved ==
    (pc = "returned" /\ state = ScenarioCube) =>
        /\ result # Sentinel
        /\ Solved(apply_moves(state, result))

\* C3: the solution log never holds more than 200 moves.
C3_LogWithinBudget == Len(solution) <= max_moves

\* C4: no input makes the construction or solve raise, and an input that
\* validate_cube rejects, or a solve that ran out of budget, returns the
\* sentinel list.
C4_FailuresGiveSentinel ==
    /\ pc # "raised"
    /\ (pc = "returned" /\ (~validate_cube(state) \/ failure = "MaxMoves"))
          => result = Sentinel

\* C5: on a state where is_cube_solved holds, solve returns the empty
\* list, runs no stage, logs no move and leaves the working cube equal to
\* the input.
C5_SolvedReturnsEmpty ==
    Solved(state) =>
        /\ pc \in {"input", "constructed", "returned"}
        /\ solution = <<>>
        /\ pc = "returned" => (result = <<>> /\ cube = state /\ failure = "")

C5_Witness == pc = "returned" /\ Solved(state) /\ depth > 0 /\ result = <<>>

Positions == FaceSet \X (0..2) \X (0..2)

At(c, p) == Get(c, p[1], p[2], p[3])

\* The cube whose sticker at each position is the position itself: a move
\* applied to it tells, for each position, where its sticker comes from.
LabelCube ==
    [f \in FaceSet |->
        << << <<f, 0, 0>>, <<f, 0, 1>>, <<f, 0, 2>> >>,
           << <<f, 1, 0>>, <<f, 1, 1>>, <<f, 1, 2>> >>,
           << <<f, 2, 0>>, <<f, 2, 1>>, <<f, 2, 2>> >> >>]

\* For each move, the label cube after the move.
Sources == {<<m, apply_move(LabelCube, m)>> : m \in MoveTexts}

SourceOf(m) == (CHOOSE pair \in Sources : pair[1] = m)[2]

\* No two positions of a move's result take their sticker from the same
\* source position.
SourcesAreBijections ==
    \A pair \in Sources : {At(pair[2], p) : p \in Positions} = Positions

\* The 54 stickers of a cube in one sequence, face by face and row by row.
RECURSIVE StickersFrom(_, _)
StickersFrom(c, i) ==
    IF i > Len(Faces) THEN <<>>
    ELSE c[Faces[i]][1] \o c[Faces[i]][2] \o c[Faces[i]][3] \o StickersFrom(c, i + 1)

\* How often each colour of a cube occurs on it.
ColourCounts(c) ==
    LET stickers == StickersFrom(c, 1)
        places == 1..Len(stickers)
    IN  {<<color, Cardinality({j \in places : stickers[j] = color})>> :
            color \in {stickers[j] : j \in places}}

\* C6: each of the 18 moves permutes the 54 sticker positions of a
\* structurally valid state, the same way whatever the colours: every
\* sticker of the result is the sticker of one source position, no two from
\* the same source, so every colour occurs as often as before.
C6_MovePermutesStickers ==
    validate_cube(state) =>
        LET before == ColourCounts(state)
        IN  \A m \in MoveTexts :
                LET after == apply_move(state, m)
                    source == SourceOf(m)
                IN  /\ \A p \in Positions : At(after, p) = At(state, At(source, p))
                    /\ SourcesAreBijections
                    /\ ColourCounts(after) = before

C6_Witness == pc = "input" /\ depth = MaxScramble /\ validate_cube(state) /\ ~Solved(state)

\* C7: on a structurally valid state, X four times, X' four times and X2
\* twice each give back exactly the state, for every face X.
C7_FourTurnsRestore ==
    validate_cube(state) =>
        \A X \in FaceSet :
            /\ apply_moves(state, << <<X>>, <<X>>, <<X>>, <<X>> >>) = state
            /\ apply_moves(state, << <<X, "'">>, <<X, "'">>, <<X, "'">>, <<X, "'">> >>) = state
            /\ apply_moves(state, << <<X, "2">>, <<X, "2">> >>) = state

C7_Witness == pc = "input" /\ depth > 0 /\ legal /\ ~Solved(state)

\* X -> X', X' -> X, X2 -> X2
InverseText(m) ==
    IF Len(m) = 1 THEN <<m[1], "'">>
    ELSE IF m[2] = "'" THEN <<m[1]>> ELSE m

\* C8: on a structurally valid state, a move followed by its syntactic
\* inverse gives back exactly the state.
C8_MoveThenInverseRestores ==
    validate_cube(state) =>
        \A m \in MoveTexts :
            apply_move(apply_move(state, m), InverseText(m)) = state

C8_Witness == pc = "input" /\ depth > 0 /\ validate_cube(state) /\ ~legal /\ ~Solved(state)

SixFaces3x3(c) ==
    /\ DOMAIN c = FaceSet
    /\ \A f \in FaceSet : Len(c[f]) = 3 /\ \A i \in 1..3 : Len(c[f][i]) = 3

\* C9: on a 6-face 3x3 state is_cube_solved returns true exactly when
\* every sticker equals the centre of its face, whether or not the six
\* centres are distinct.
C9_SolvedIffFacesUniform ==
    SixFaces3x3(state) =>
        (is_cube_solved(state) = "True"
            <=> \A p \in Positions : At(state, p) = Get(state, p[1], 1, 1))

C9_Witness ==
    /\ SixFaces3x3(state)
    /\ is_cube_solved(state) = "True"
    /\ Cardinality({Get(state, f, 1, 1) : f \in FaceSet}) < 6

\* The quarter turns of a move text, by its suffix, and the text of a
\* face turned q quarter turns (none for q = 0).
QuarterTurns(m) == IF Len(m) = 1 THEN 1 ELSE IF m[2] = "2" THEN 2 ELSE 3

TextOfTurns(face, q) ==
    CASE q = 0 -> <<>>
      [] q = 1 -> << <<face>> >>
      [] q = 2 -> << <<face, "2">> >>
      [] q = 3 -> << <<face, "'">> >>

\* One left-to-right pass over a log: an adjacent pair on one face becomes
\* the move of the summed turns mod 4 and both are passed; any other move
\* is copied.
RECURSIVE OnePass(_)
OnePass(log) ==
    IF log = <<>> THEN <<>>
    ELSE IF Len(log) >= 2 /\ log[1][1] = log[2][1]
    THEN TextOfTurns(log[1][1], (QuarterTurns(log[1]) + QuarterTurns(log[2])) % 4)
            \o OnePass(Tail(Tail(log)))
    ELSE <<log[1]>> \o OnePass(Tail(log))

\* C10: _optimize_solution returns the result of that one pass; [U,U]
\* gives [U2], [U,U'] gives [], [U,U2] gives [U'], [R,R',F] gives [F] and
\* [U,U,U] gives [U2,U].
C10_OptimizerIsOnePass ==
    pc = "returned" =>
        /\ result = OnePass(solution)
        /\ solution = <<mv.U, mv.U>> => result = <<mv.U2>>
        /\ solution = <<mv.U, mv.Up>> => result = <<>>
        /\ solution = <<mv.U, mv.U2>> => result = <<mv.Up>>
        /\ solution = <<mv.R, mv.Rp, mv.F>> => result = <<mv.F>>
        /\ solution = <<mv.U, mv.U, mv.U>> => result = <<mv.U2, mv.U>>

C10_Witness == pc = "returned" /\ solution = <<mv.U, mv.U, mv.U>> /\ result = <<mv.U2, mv.U>>

\* The tokens of a cube, read face by face, row by row and place by place.
TokensOf(c) ==
    {c[f][i][j] : <<f, i, j>> \in
        UNION {UNION {{<<g, r, k>> : k \in DOMAIN c[g][r]} : r \in DOMAIN c[g]} : g \in DOMAIN c}}

\* The format the specification asks for: exactly the six face keys, each
\* face three rows of three tokens, at most six distinct tokens.
WellFormed(c) ==
    /\ \A f \in FaceSet : f \in DOMAIN c
    /\ \A f \in DOMAIN c : f \in FaceSet
    /\ \A f \in DOMAIN c : DOMAIN c[f] = 1..3 /\ \A r \in DOMAIN c[f] : DOMAIN c[f][r] = 1..3
    /\ Cardinality(TokensOf(c)) <= 6

\* C11: validate_cube succeeds exactly on the cubes with the six face
\* keys, 3x3 faces and at most six distinct tokens; it rejects seven
\* colours, a face with four rows, a missing and an extra face key, and
\* accepts a well-formed cube that no move sequence reaches from a solved
\* six-colour cube.
C11_ValidateAcceptsExactlyWellFormed ==
    pc \in {"validated", "rejected"} =>
        /\ pc = "validated" <=> WellFormed(state)
        /\ pc = "rejected" <=> failure = "ValueError"
        /\ state \in {Damaged(SolvedCube, <<kind, f>>) :
                         kind \in {"new_colour", "four_rows", "drop_face", "extra_face"},
                         f \in FaceSet}
              => pc = "rejected"
        /\ state = FiveColourCube => pc = "validated"

C11_Witness == pc = "validated" /\ ~legal /\ state = Damaged(FiveColourCube, <<"new_colour", "F">>)

C13_OnlyTheEighteenTextsAccepted ==
    pc = "moved" =>
        LET text == result[1]
            letter_ok == text # <<>> /\ \E f \in FaceSet : text[1] = f
        IN  /\ failure = "" <=> \E m \in MoveTexts : m = text
            /\ ~letter_ok => failure = "InvalidMove"
            /\ (letter_ok /\ Len(text) > 1 /\ Tail(text) # <<"'">> /\ Tail(text) # <<"2">>)
                  => failure = "InvalidSuffix"
            /\ text \in {<<"U", "3">>, <<"U", "2", "'">>, <<"U", "'", "'">>}
                  => failure = "InvalidSuffix"
            /\ failure # "" => state = cube

C13_Witness ==
    pc = "moved" /\ result = << <<"U", "2", "'">> >> /\ failure = "InvalidSuffix" /\ state = cube

\* The sub-goals of the stages, on the cube's own centres.
Centre(c, f) == Get(c, f, 1, 1)

\* The four U edges placed and oriented.
CrossGoal(c) ==
    /\ \A p \in {<<0, 1>>, <<1, 0>>, <<1, 2>>, <<2, 1>>} :
          Get(c, "U", p[1], p[2]) = Centre(c, "U")
    /\ \A f \in {"F", "R", "B", "L"} : Get(c, f, 0, 1) = Centre(c, f)

\* The four U corners placed and oriented.
CornersGoal(c) ==
    /\ \A p \in {<<0, 0>>, <<0, 2>>, <<2, 0>>, <<2, 2>>} :
          Get(c, "U", p[1], p[2]) = Centre(c, "U")
    /\ \A f \in {"F", "R", "B", "L"} :
          Get(c, f, 0, 0) = Centre(c, f) /\ Get(c, f, 0, 2) = Centre(c, f)

\* The four middle-layer edges placed and oriented.
SecondLayerGoal(c) ==
    \A f \in {"F", "R", "B", "L"} :
        Get(c, f, 1, 0) = Centre(c, f) /\ Get(c, f, 1, 2) = Centre(c, f)

\* The cross of the bottom colour on D.
YellowCrossGoal(c) ==
    \A p \in {<<0, 1>>, <<1, 0>>, <<1, 2>>, <<2, 1>>} :
        Get(c, "D", p[1], p[2]) = Centre(c, "D")

\* The whole D face of the bottom colour.
YellowFaceGoal(c) ==
    \A r \in 0..2 : \A k \in 0..2 : Get(c, "D", r, k) = Centre(c, "D")

\* The sub-goal of the stage that is due at pc.
SubGoalHolds(name, c) ==
    CASE name = "white_cross" -> CrossGoal(c)
      [] name = "white_corners" -> CornersGoal(c)
      [] name = "second_layer" -> SecondLayerGoal(c)
      [] name = "yellow_cross" -> YellowCrossGoal(c)
      [] name = "yellow_face" -> YellowFaceGoal(c)
      [] name = "final_layer" -> Solved(c)
      [] OTHER -> FALSE

\* C14: a stage started on a cube where its own sub-goal holds, the
\* solved cube among them, logs no move and leaves the working cube as it
\* is.
C14_StageIdleOnItsSubGoal ==
    [][(pc \in StageNames /\ SubGoalHolds(pc, cube))
          => (cube' = cube /\ solution' = solution)]_vars

\* C15: when _solve_white_cross returns on a cube that valid moves take
\* the solved six-colour cube to, the four U edges are placed and
\* oriented.
C15_WhiteCrossSolvesCross ==
    [][(pc = "white_cross" /\ legal /\ pc' = "white_corners") => CrossGoal(cube')]_vars

\* C16: when _solve_white_corners is run on such a cube with the white
\* cross solved and returns, the four U corners are placed and oriented.
C16_WhiteCornersSolvesCorners ==
    [][(pc = "white_corners" /\ legal /\ CrossGoal(cube) /\ pc' = "second_layer")
          => CornersGoal(cube')]_vars

\* C17: when _solve_yellow_cross is run on such a cube with the U layer
\* and the middle layer solved and returns, D shows the cross of its
\* centre colour, and no move is applied when it showed it on entry.
C17_YellowCrossSolvesCross ==
    [][(/\ pc = "yellow_cross" /\ legal
        /\ CrossGoal(cube) /\ CornersGoal(cube) /\ SecondLayerGoal(cube)
        /\ pc' = "yellow_face")
          => /\ YellowCrossGoal(cube')
             /\ YellowCrossGoal(cube) => (cube' = cube /\ solution' = solution)]_vars

\* The face opposite to a face, the pairs of adjacent faces and the
\* triples of faces that meet in a corner.
Opposite(f) ==
    CASE f = "U" -> "D" [] f = "D" -> "U" [] f = "F" -> "B"
      [] f = "B" -> "F" [] f = "L" -> "R" [] f = "R" -> "L"

AdjacentPairs == {pair \in SUBSET FaceSet :
                    Cardinality(pair) = 2 /\ \A f \in pair : Opposite(f) \notin pair}

CornerTriples == {triple \in SUBSET FaceSet :
                    Cardinality(triple) = 3 /\ \A f \in triple : Opposite(f) \notin triple}

\* The positions of a table entry, and the colours a cube shows on them.
EntryPositions(e) == {<<e[3 * k + 1], e[3 * k + 2], e[3 * k + 3]>> : k \in 0..(Len(e) \div 3 - 1)}

EntryColours(c, e) == {At(c, p) : p \in EntryPositions(e)}

\* Under every move the stickers of an entry come from the positions of
\* one entry: the entries are the cubies.
EntriesMoveTogether ==
    \A pair \in Sources :
        /\ \A i \in 1..Len(edges) : \E j \in 1..Len(edges) :
              {At(pair[2], p) : p \in EntryPositions(edges[i])} = EntryPositions(edges[j])
        /\ \A i \in 1..Len(corners) : \E j \in 1..Len(corners) :
              {At(pair[2], p) : p \in EntryPositions(corners[i])} = EntryPositions(corners[j])

\* Exactly one edge entry for each pair of adjacent centre colours, one
\* corner entry for each triple, and the locators find them.
EntryFits(found, colours) == Cardinality({i \in DOMAIN found : found[i] = colours}) = 1

\* edge_colours and corner_colours are the colours on each entry of c.
TablesFitOn(c, edge_colours, corner_colours) ==
    /\ \A pair \in AdjacentPairs :
          /\ EntryFits(edge_colours, {Centre(c, f) : f \in pair})
          /\ \E f \in pair : \E g \in pair \ {f} :
                 _find_edge(c, Centre(c, f), Centre(c, g)) # None
    /\ \A triple \in CornerTriples :
          /\ EntryFits(corner_colours, {Centre(c, f) : f \in triple})
          /\ \E f \in triple : \E g \in triple \ {f} : \E h \in triple \ {f, g} :
                 _find_corner(c, Centre(c, f), Centre(c, g), Centre(c, h)) # None

TablesFit(c) ==
    TablesFitOn(c, [i \in 1..Len(edges) |-> EntryColours(c, edges[i])],
                [i \in 1..Len(corners) |-> EntryColours(c, corners[i])])

\* C18: the 12 edge entries and the 8 corner entries are the cubies: they
\* move together under every move, so on every cube that valid moves take
\* the solved six-colour cube to, the caller's and the solver's working
\* cube alike, each pair of adjacent face colours is on exactly one edge
\* entry and each triple on exactly one corner entry, and the locators do
\* not return the not-found value.
C18_TablesAreTheCubies ==
    legal =>
        /\ EntriesMoveTogether
        /\ Len(edges) = 12 /\ Len(corners) = 8
        /\ pc = "input" => TablesFit(state)
        /\ pc \notin {"input", "raised"} => TablesFit(cube)

C18_Witness == legal /\ pc = "returned" /\ failure = "" /\ Len(solution) > 100 /\ TablesFit(cube)

\* The position of the driver in the order of solve().
Rank(p) ==
    CASE p = "input" -> 0
      [] p = "constructed" -> 1
      [] p = "white_cross" -> 2
      [] p = "white_corners" -> 3
      [] p = "second_layer" -> 4
      [] p = "yellow_cross" -> 5
      [] p = "yellow_face" -> 6
      [] p = "final_layer" -> 7
      [] p = "optimize" -> 8
      [] OTHER -> 9

\* The most moves a stage can log when none of its loops turns more than
\* 4 times: 4 faces of at most 5 + 4 + 3 moves, 4 faces of 4 + 4 + 4 + 4,
\* 4 passes of 8 + 4 + 8, 6 + 4 + 6, 4 rounds of 4 + 7, and 4 rounds of
\* 9 + 1 followed by 4 rounds of 11 + 1.
StageMoveBound(name) ==
    CASE name = "white_cross" -> 48
      [] name = "white_corners" -> 64
      [] name = "second_layer" -> 80
      [] name = "yellow_cross" -> 16
      [] name = "yellow_face" -> 44
      [] name = "final_layer" -> 88

\* The number of D turns a log starts with.
RECURSIVE LeadingD(_)
LeadingD(log) ==
    IF log # <<>> /\ Head(log) = mv.D THEN 1 + LeadingD(Tail(log)) ELSE 0

YellowFaceAlg == <<mv.R, mv.U, mv.Rp, mv.U, mv.R, mv.U2, mv.Rp>>

\* A log of at most n rounds of at most 4 D turns and the algorithm; a
\* round that an exception cut short has its D turns only.
RECURSIVE YellowFaceRounds(_, _, _)
YellowFaceRounds(log, n, cut) ==
    \/ log = <<>>
    \/ /\ n > 0
       /\ LeadingD(log) <= 4
       /\ LET rest == SubSeq(log, LeadingD(log) + 1, Len(log))
          IN  \/ cut /\ rest = <<>>
              \/ /\ Len(rest) >= 7
                 /\ SubSeq(rest, 1, 7) = YellowFaceAlg
                 /\ YellowFaceRounds(SubSeq(rest, 8, Len(rest)), n - 1, cut)

IsMoveList(r) == \A i \in 1..Len(r) : r[i] \in MoveTexts

\* One step of the driver: the position moves forward only, a stage is
\* followed by the next stage or by the return, a stage that raised is
\* followed by the return of the sentinel, and a stage logs no more moves
\* than loops of at most 4 turns allow.
SolveStepInOrder ==
    /\ Rank(pc') >= Rank(pc)
    /\ pc \in StageNames =>
          /\ pc' # pc
          /\ pc' \in StageNames \cup {"optimize"} => Rank(pc') = Rank(pc) + 1
          /\ pc' \notin StageNames \cup {"optimize"} => pc' = "returned" /\ result' = Sentinel
          /\ Len(solution') - Len(solution) <= StageMoveBound(pc)
    /\ (failure' # "" /\ pc # "input") => pc' \in {"returned", "raised"}
    /\ pc = "yellow_face" =>
          YellowFaceRounds(SubSeq(solution', Len(solution) + 1, Len(solution')),
                           4, pc' = "returned")
    /\ pc \in {"returned", "raised"} => UNCHANGED vars

\* C19: solve() on an input that validate_cube accepts ends with a
\* return, of a list of moves or of the sentinel; on the way the six
\* stages run at most once each and in the order white cross, white
\* corners, second layer, yellow cross, yellow face, final layer, no stage
\* runs after a failure, and no loop turns a face more than 4 times.
C19_SolveTerminatesInOrder ==
    /\ [][SolveStepInOrder]_vars
    /\ (pc = "constructed" /\ validate_cube(state))
          ~> (pc = "returned" /\ (result = Sentinel \/ IsMoveList(result)))

C19_Witness ==
    /\ pc = "returned" /\ validate_cube(state) /\ IsMoveList(result) /\ result # <<>>
    /\ failure = "" /\ Len(solution) >= Len(result)

\* A row and a column of a face, as sets of positions.
RowOf(f, r) == {<<f, r, k>> : k \in 0..2}

ColOf(f, k) == {<<f, r, k>> : r \in 0..2}

\* The 12 positions around a face: 3 on each of the 4 adjacent faces.
Border(X) ==
    CASE X = "U" -> RowOf("F", 0) \cup RowOf("R", 0) \cup RowOf("B", 0) \cup RowOf("L", 0)
      [] X = "D" -> RowOf("F", 2) \cup RowOf("R", 2) \cup RowOf("B", 2) \cup RowOf("L", 2)
      [] X = "F" -> RowOf("U", 2) \cup ColOf("R", 0) \cup RowOf("D", 0) \cup ColOf("L", 2)
      [] X = "B" -> RowOf("U", 0) \cup ColOf("L", 0) \cup RowOf("D", 2) \cup ColOf("R", 2)
      [] X = "L" -> ColOf("U", 0) \cup ColOf("F", 0) \cup ColOf("D", 0) \cup ColOf("B", 2)
      [] X = "R" -> ColOf("U", 2) \cup ColOf("B", 0) \cup ColOf("D", 2) \cup ColOf("F", 2)

\* The 20 positions a quarter turn of X may change.
Turned(X) == ({<<X, r, k>> : r \in 0..2, k \in 0..2} \ {<<X, 1, 1>>}) \cup Border(X)

\* The positions whose sticker comes from another position under a
\* quarter turn of X are the 8 and the 12, 3 on each adjacent face; the
\* centres and the opposite face are not among them.
QuarterTurnFrame ==
    \A X \in FaceSet :
        /\ {p \in Positions : At(SourceOf(<<X>>), p) # p} = Turned(X)
        /\ Cardinality(Turned(X)) = 20
        /\ Cardinality(Positions \ Turned(X)) = 34
        /\ \A g \in FaceSet \ {X, Opposite(X)} :
              Cardinality({p \in Border(X) : p[1] = g}) = 3
        /\ \A g \in FaceSet : <<g, 1, 1>> \notin Turned(X)
        /\ \A p \in Turned(X) : p[1] # Opposite(X)

\* C20: a clockwise quarter turn of X changes no position but the 8
\* non-centre positions of X and the 12 border positions: on every valid
\* state the other 34 stickers, the six centres and the opposite face
\* among them, are as before; so the face colours a solver took from the
\* centres when it was built are the centres of its working cube after
\* all the moves of its stages.
C20_QuarterTurnFrame ==
    /\ QuarterTurnFrame
    /\ (pc = "input" /\ validate_cube(state)) =>
          \A X \in FaceSet :
              LET after == apply_move(state, <<X>>)
              IN  \A p \in Positions \ Turned(X) : At(after, p) = At(state, p)
    /\ (pc \notin {"input", "raised"} /\ validate_cube(state)) =>
          \A f \in FaceSet : Centre(cube, f) = face_colors[f]

C20_Witness ==
    /\ pc = "returned" /\ validate_cube(state) /\ depth > 0
    /\ Len(solution) > 20 /\ cube # state
    /\ \A f \in FaceSet : Centre(cube, f) = face_colors[f]

\* The cubes a log is replayed on: the solved cube, a scrambled cube and
\* the cube of labels, on which two logs agree only if they move every
\* position alike.
ReplayStarts == {SolvedCube, ScenarioCube, LabelCube}

\* C21: the list _optimize_solution returns has the effect of the log:
\* replayed move by move with apply_move from the same start it ends in
\* the same cube, position by position; it is not longer than the log and
\* holds move texts only.
C21_OptimizerKeepsEffect ==
    pc = "returned" =>
        /\ \A start \in ReplayStarts :
              apply_moves(start, result) = apply_moves(start, solution)
        /\ Len(result) <= Len(solution)
        /\ IsMoveList(result)

C21_Witness ==
    /\ pc = "returned" /\ Len(solution) = MaxLog /\ Len(result) = 1
    /\ apply_moves(LabelCube, result) = apply_moves(LabelCube, solution)
    /\ apply_moves(LabelCube, result) # LabelCube

\* C22: on a cube that valid moves take the solved six-colour cube to, no
\* stage raises but for the move budget: solve returns the sentinel only
\* when the log held max_moves moves and a further _apply was attempted;
\* so the white-corners stage ends without a fault when it has to turn D
\* to bring a corner of the bottom layer under its slot.
C22_OnlyBudgetFaults ==
    (legal /\ pc = "returned" /\ result = Sentinel) =>
        (failure = "MaxMoves" /\ Len(solution) >= max_moves)

====
